---- MODULE Spec2Model ----
(***************************************************************************)
(* Coaching graph (graph.py) and the infection engine (infect.py).         *)
(*                                                                         *)
(* A user is identified by its id.  The graph is built as the loader       *)
(* json_file_to_coaching_graph builds it (users, then coaching edges,      *)
(* then features); afterwards the traversal and infection operations are   *)
(* called on it.  Python sets and dicts iterate in an order the program    *)
(* does not control: every operation that iterates one takes the order as  *)
(* an input, a permutation `ord` of the stored ids.                        *)
(***************************************************************************)
EXTENDS Integers, Sequences, FiniteSets, TLC

\* ---------------------------------------------------------------- bounds
MaxNodes == 4
MaxEdges == 3
MaxLoaded == 1
MaxArg == 4

\* The large graphs: forests of stars, one star per component; the sizes
\* of the first three components are at most BigA, BigB and BigC.
BigA == 6
BigB == 16
BigC == 3
BigMin == 2
BigMax == 50

\* update_feature on its own: the number of features the user is loaded with.
MaxData == 2

\* The calls of trim_infections: the number of seeds, the size of a seed
\* and max_users.
TrimLen == 3
TrimSize == 4
TrimMax == 9

\* Graphs built call by call: ids 1..MaxIds, two node objects for each id, at
\* most ObjectEdges edges.
MaxIds == 2
ObjectEdges == 2

\* Graphs that are used for several calls: at most MaxReuse users and
\* ReuseEdges coaching edges.
MaxReuse == 3
ReuseEdges == 2

Ids == 1..(MaxNodes + 1)
Args == 0..MaxArg

\* Feature tokens are strings, modelled as sequences of characters.
Feature == <<"a">>
NotFeature == <<"!">> \o Feature
Tokens == {Feature, NotFeature}

VARIABLES
    nodes,      \* Graph._nodes: the ids stored in the graph
    incoming,   \* Node._incoming, per id
    outgoing,   \* Node._outgoing, per id
    visited,    \* Node._visited, per id
    features,   \* User.features(), per id
    phase,      \* position of main: loading "users", "coaches", "features";
                \* "ready" once loaded; "done" after the operation
    op,         \* the last operation called and its arguments
    result,     \* what it returned: "True", "False", "None" or "error" (raised)
    updated,    \* the users update_feature was called on by the last operation
    before,     \* the feature sets when the last operation was called
    connected,  \* the list returned by the last connected_component
    components, \* the list of lists returned by the last all_connected_components
    users,      \* limited_infection: the result of approx_component_infection
    class_pass, \* limited_infection: whether approx_class_infection was called
    class_users, \* limited_infection: the result of approx_class_infection
    prev,       \* the update_feature call made before the last one
    earlier,    \* the feature sets when that call was made
    trim_call,  \* trim_infections: the arguments passed, the list infections
                \* and delta, a rational num/den
    trim_result \* trim_infections: the list returned

vars == <<nodes, incoming, outgoing, visited, features, phase, op, result,
          updated, before, connected, components, users, class_pass, class_users,
          prev, earlier, trim_call, trim_result>>

\* ------------------------------------------------------------ list helpers
Range(s) == {s[i] : i \in 1..Len(s)}

\* All orders in which a set can be iterated.
RECURSIVE Perms(_)
Perms(S) == IF S = {} THEN {<<>>} ELSE UNION {{<<x>> \o p : p \in Perms(S \ {x})} : x \in S}

\* The elements of S in iteration order ord.
Iterate(S, ord) == SelectSeq(ord, LAMBDA x : x \in S)

\* list.sort(key=len): a stable sort of a list of sets by size.
RECURSIVE SortByLen(_, _)
SortByLen(list, k) ==
    IF \A i \in 1..Len(list) : Cardinality(list[i]) < k
    THEN <<>>
    ELSE SelectSeq(list, LAMBDA x : Cardinality(x) = k) \o SortByLen(list, k + 1)

\* seq[i] with a Python index i (0-based, negative counts from the end).
InRange(seq, i) == -Len(seq) <= i /\ i < Len(seq)
PyIndex(seq, i) == IF i >= 0 THEN seq[i + 1] ELSE seq[Len(seq) + i + 1]

\* ------------------------------------------------------------------- Node
\* Variants of neighbors that follow the edges in one direction only.
neighbors_outgoing(n) == outgoing[n]

neighbors_incoming(n) == incoming[n]

neighbors(n) == incoming[n] \cup outgoing[n]

is_parent(n) == Cardinality(outgoing[n]) > 0

is_singleton(n) == Cardinality(neighbors(n)) = 0

\* ------------------------------------------------------------------- User
startswith_bang(feature) == Len(feature) >= 1 /\ feature[1] = "!"

add_feature(data, feature) == data \cup {feature}

discard_feature(data, feature) == data \ {feature}

\* Variant of update_feature that discards the token as passed, with its "!".
update_feature_whole(data, feature) ==
    IF startswith_bang(feature)
    THEN discard_feature(data, feature)
    ELSE add_feature(data, feature)

update_feature(data, feature) ==
    IF startswith_bang(feature)
    THEN discard_feature(data, Tail(feature))
    ELSE add_feature(data, feature)

\* ------------------------------------------------------------------ Graph
all_parents == {n \in nodes : is_parent(n)}

all_singletons == {n \in nodes : is_singleton(n)}

\* A node object is a number and its id the absolute value: n and -n are two
\* node objects made with the same id.  The loader makes one object per id,
\* the positive one.
id(node) == IF node < 0 THEN -node ELSE node

\* add_node: the object stored under an id is not overwritten.
add_node(stored, node) ==
    IF id(node) \notin {id(n) : n \in stored} THEN stored \cup {node} ELSE stored

\* find_node(node_id) for a stored id: the object stored under it.
find_node(node_id) == CHOOSE node \in nodes : id(node) = node_id

\* The coaching graph is created with directed=True.
directed == TRUE

\* add_edge(node1, node2) on stored nodes: the new incoming and outgoing sets.
add_edge(node1, node2) ==
    LET out1 == [outgoing EXCEPT ![node1] = @ \cup {node2}]
        in1 == [incoming EXCEPT ![node2] = @ \cup {node1}]
    IN IF directed
       THEN [incoming |-> in1, outgoing |-> out1]
       ELSE [incoming |-> [in1 EXCEPT ![node1] = @ \cup {node2}],
             outgoing |-> [out1 EXCEPT ![node2] = @ \cup {node1}]]

\* Variant of bfs that appends the node it dequeues before it looks at the
\* visited flag.
RECURSIVE bfs_append_first(_, _, _, _)
bfs_append_first(node_queue, conn, vis, ord) ==
    IF Len(node_queue) = 0
    THEN [connected |-> conn, visited |-> vis]
    ELSE LET current_node == Head(node_queue) IN
         IF ~vis[current_node]
         THEN bfs_append_first(Tail(node_queue) \o Iterate(neighbors(current_node), ord),
                               Append(conn, current_node),
                               [vis EXCEPT ![current_node] = TRUE], ord)
         ELSE bfs_append_first(Tail(node_queue), Append(conn, current_node), vis, ord)

\* The breadth first search of connected_component: the loop over node_queue.
RECURSIVE bfs(_, _, _, _)
bfs(node_queue, conn, vis, ord) ==
    IF Len(node_queue) = 0
    THEN [connected |-> conn, visited |-> vis]
    ELSE LET current_node == Head(node_queue) IN
         IF ~vis[current_node]
         THEN bfs(Tail(node_queue) \o Iterate(neighbors(current_node), ord),
                  Append(conn, current_node),
                  [vis EXCEPT ![current_node] = TRUE], ord)
         ELSE bfs(Tail(node_queue), conn, vis, ord)

\* Variant of connected_component that searches without resetting the flags.
connected_component_stale(start_id, vis, ord) ==
    bfs(<<find_node(start_id)>>, <<>>, vis, ord)

\* connected_component(start_id) for a stored start_id: every stored node's
\* flag is reset, then the search runs.
connected_component(start_id, vis, ord) ==
    bfs(<<find_node(start_id)>>, <<>>,
        [n \in DOMAIN vis |-> IF n \in nodes THEN FALSE ELSE vis[n]], ord)

\* all_connected_components: ids.pop() takes the first remaining id in ord.
RECURSIVE all_connected_components_loop(_, _, _, _)
all_connected_components_loop(ids, comps, vis, ord) ==
    IF Cardinality(ids) = 0
    THEN [components |-> comps, visited |-> vis]
    ELSE LET starting_id == Head(Iterate(ids, ord))
             component == connected_component(starting_id, vis, ord)
         IN all_connected_components_loop(ids \ {id(x) : x \in Range(component.connected)},
                                          Append(comps, component.connected),
                                          component.visited, ord)

all_connected_components(vis, ord) ==
    all_connected_components_loop({id(n) : n \in nodes}, <<>>, vis, ord)

\* ------------------------------------------------------- double precision
\* Python floats are IEEE 754 doubles.  A double that is not negative is a
\* record [m |-> digits, e |-> k]: the integer with the binary digits m,
\* most significant first, times 2^k.  Every operation rounds its exact
\* result to Precision digits, to nearest, ties to even.
Precision == 53

Zeros(k) == [i \in 1..k |-> 0]

\* The digits b without leading zeros.
Strip(b) ==
    IF \A i \in 1..Len(b) : b[i] = 0
    THEN <<>>
    ELSE SubSeq(b, CHOOSE i \in 1..Len(b) : b[i] = 1 /\ \A j \in 1..(i - 1) : b[j] = 0, Len(b))

RECURSIVE Bits(_)
Bits(n) == IF n = 0 THEN <<>> ELSE Append(Bits(n \div 2), n % 2)

\* The operations on digits work on the digits lo..hi, halving the range,
\* and hand the remainder or the carry from one half to the other.

\* Long division of the digits b by the small integer d; r is the remainder
\* of the digits before lo.
RECURSIVE DivRange(_, _, _, _, _)
DivRange(b, d, lo, hi, r) ==
    IF lo > hi
    THEN [q |-> <<>>, r |-> r]
    ELSE IF lo = hi
         THEN LET t == 2 * r + b[lo] IN
              [q |-> <<IF t >= d THEN 1 ELSE 0>>, r |-> IF t >= d THEN t - d ELSE t]
         ELSE CHOOSE res \in
                  {CHOOSE both \in {[q |-> left.q \o right.q, r |-> right.r] :
                       right \in {DivRange(b, d, (lo + hi) \div 2 + 1, hi, left.r)}} : TRUE :
                   left \in {DivRange(b, d, lo, (lo + hi) \div 2, r)}} : TRUE

\* The digits b times the small integer k; carry comes from the digits
\* after hi.
RECURSIVE MulRange(_, _, _, _, _)
MulRange(b, k, lo, hi, carry) ==
    IF lo > hi
    THEN [out |-> <<>>, carry |-> carry]
    ELSE IF lo = hi
         THEN [out |-> <<(b[lo] * k + carry) % 2>>, carry |-> (b[lo] * k + carry) \div 2]
         ELSE CHOOSE res \in
                  {CHOOSE both \in {[out |-> left.out \o right.out, carry |-> left.carry] :
                       left \in {MulRange(b, k, lo, (lo + hi) \div 2, right.carry)}} : TRUE :
                   right \in {MulRange(b, k, (lo + hi) \div 2 + 1, hi, carry)}} : TRUE

MulSmall(b, k) ==
    CHOOSE res \in {Bits(r.carry) \o r.out : r \in {MulRange(b, k, 1, Len(b), 0)}} : TRUE

\* a + b, digits of equal number.
RECURSIVE AddRange(_, _, _, _, _)
AddRange(a, b, lo, hi, carry) ==
    IF lo > hi
    THEN [out |-> <<>>, carry |-> carry]
    ELSE IF lo = hi
         THEN [out |-> <<(a[lo] + b[lo] + carry) % 2>>,
               carry |-> (a[lo] + b[lo] + carry) \div 2]
         ELSE CHOOSE res \in
                  {CHOOSE both \in {[out |-> left.out \o right.out, carry |-> left.carry] :
                       left \in {AddRange(a, b, lo, (lo + hi) \div 2, right.carry)}} : TRUE :
                   right \in {AddRange(a, b, (lo + hi) \div 2 + 1, hi, carry)}} : TRUE

\* a - b for a >= b, digits of equal number; carry is the borrow.
RECURSIVE SubRange(_, _, _, _, _)
SubRange(a, b, lo, hi, carry) ==
    IF lo > hi
    THEN [out |-> <<>>, carry |-> carry]
    ELSE IF lo = hi
         THEN [out |-> <<(a[lo] - b[lo] - carry + 2) % 2>>,
               carry |-> IF a[lo] - b[lo] - carry < 0 THEN 1 ELSE 0]
         ELSE CHOOSE res \in
                  {CHOOSE both \in {[out |-> left.out \o right.out, carry |-> left.carry] :
                       left \in {SubRange(a, b, lo, (lo + hi) \div 2, right.carry)}} : TRUE :
                   right \in {SubRange(a, b, (lo + hi) \div 2 + 1, hi, carry)}} : TRUE

Pad(b, n) == Zeros(n - Len(b)) \o b

Longer(a, b) == IF Len(a) >= Len(b) THEN Len(a) ELSE Len(b)

Add(a, b) ==
    CHOOSE res \in {Bits(r.carry) \o r.out :
        r \in {AddRange(Pad(a, Longer(a, b)), Pad(b, Longer(a, b)), 1, Longer(a, b), 0)}} : TRUE

Sub(a, b) ==
    SubRange(Pad(a, Longer(a, b)), Pad(b, Longer(a, b)), 1, Longer(a, b), 0).out

\* a > b as integers, for digits without leading zeros.
Greater(a, b) ==
    \/ Len(a) > Len(b)
    \/ /\ Len(a) = Len(b)
       /\ \E i \in 1..Len(a) : a[i] > b[i] /\ \A j \in 1..(i - 1) : a[j] = b[j]

\* The double nearest to b * 2^e (plus a nonzero rest below it if sticky),
\* for digits b without leading zeros.
Round(b, e, sticky) ==
    IF Len(b) <= Precision
    THEN [m |-> b, e |-> e]
    ELSE LET kept == SubSeq(b, 1, Precision)
             rest == sticky \/ \E i \in (Precision + 2)..Len(b) : b[i] = 1
             up == b[Precision + 1] = 1 /\ (rest \/ kept[Precision] = 1)
             r == IF up THEN Add(kept, <<1>>) ELSE kept
             shift == Len(b) - Precision
         IN IF Len(r) > Precision
            THEN [m |-> SubSeq(r, 1, Precision), e |-> e + shift + 1]
            ELSE [m |-> r, e |-> e + shift]

\* float(n)
float_int(n) == [m |-> Bits(n), e |-> 0]

\* x / d for a small integer d > 0
float_div(x, d) ==
    CHOOSE quotient \in
        {Round(Strip(res.q), x.e - 2 * Precision, res.r # 0) :
            res \in {DivRange(x.m \o Zeros(2 * Precision), d, 1, Len(x.m) + 2 * Precision, 0)}} : TRUE

\* 1.0 as digits aligned with the double x, x.e <= 0
One(x) == <<1>> \o Zeros(-x.e)

\* x - 1.0 for x >= 1.0: the difference is a double, nothing is rounded
float_sub_one(x) == [m |-> Strip(Sub(x.m, One(x))), e |-> x.e]

\* 1.0 + x
float_add_one(x) == Round(Strip(Add(x.m, One(x))), x.e, FALSE)

\* float(k) * x
float_mul(k, x) == Round(Strip(MulSmall(x.m, k)), x.e, FALSE)

\* float(y) > x
float_gt(y, x) == Greater(Strip(Bits(y) \o Zeros(-x.e)), x.m)

\* ----------------------------------------------------- approximate solver
\* delta = epsilon / (2.0 * n) with epsilon = float(max_users) / min_users - 1.0
float_delta(min_users, max_users, n) ==
    float_div(float_sub_one(float_div(float_int(max_users), min_users)), 2 * n)

\* y > last * (1.0 + delta) as the doubles decide it
farther_double(y, last, delta) ==
    float_gt(y, float_mul(last, float_add_one(
                    float_delta(delta.min_users, delta.max_users, delta.n))))

\* y > last * (1.0 + delta).  delta also stands for the rational num/den
\* it rounds.  The two sides as rationals are y and last * (den + num) / den:
\* when they differ they differ by 1 / den at least, far more than the
\* rounding of a double can move them, and the exact comparison decides;
\* when they are equal the rounding decides.
farther(y, last, delta) ==
    IF y * delta.den = last * (delta.den + delta.num) /\ delta.num > 0 /\ delta.den > 0
    THEN farther_double(y, last, delta)
    ELSE y * delta.den > last * (delta.den + delta.num)

RECURSIVE trim_loop(_, _, _, _, _)
trim_loop(infections, delta, i, last, trimmed) ==
    IF i > Len(infections)
    THEN trimmed
    ELSE IF farther(Cardinality(infections[i]), last, delta)
         THEN trim_loop(infections, delta, i + 1, Cardinality(infections[i]),
                        Append(trimmed, infections[i]))
         ELSE trim_loop(infections, delta, i + 1, last, trimmed)

trim_infections(infections, delta) ==
    trim_loop(infections, delta, 2, Cardinality(infections[1]), <<infections[1]>>)

\* epsilon / (2.0 * n) with epsilon = float(max_users) / min_users - 1.0
trim_delta(min_users, max_users, n) ==
    [num |-> max_users - min_users, den |-> 2 * n * min_users,
     min_users |-> min_users, max_users |-> max_users, n |-> n]

\* Variant of within that drops no candidate.
within_unfiltered(new_infections, max_users) == new_infections

\* new_infections after the filter: the candidates that stay within max_users.
within(new_infections, max_users) ==
    SelectSeq(new_infections, LAMBDA x : Cardinality(x) <= max_users)

\* One iteration of the loop over seeds, for the seed whose members are unit.
approx_step(infections, unit, max_users, delta) ==
    LET new_infections == [i \in 1..Len(infections) |-> infections[i] \cup unit]
        extended == infections \o within(new_infections, max_users)
    IN trim_infections(SortByLen(extended, 0), delta)

RECURSIVE approx_component_loop(_, _, _, _, _)
approx_component_loop(seeds, k, infections, max_users, delta) ==
    IF k > Len(seeds)
    THEN infections
    ELSE approx_component_loop(seeds, k + 1,
             approx_step(infections, Range(seeds[k]), max_users, delta),
             max_users, delta)

\* seeds: the list of components.  Called with min_users # 0.
approx_component_infection(seeds, min_users, max_users) ==
    LET n == Len(seeds)
        infections == approx_component_loop(seeds, 1, <<{}>>, max_users,
                                            trim_delta(min_users, max_users, n))
    IN infections[Len(infections)]

RECURSIVE approx_class_loop(_, _, _, _, _)
approx_class_loop(seeds, k, infections, max_users, delta) ==
    IF k > Len(seeds)
    THEN infections
    ELSE approx_class_loop(seeds, k + 1,
             approx_step(infections, {seeds[k]} \cup outgoing[seeds[k]], max_users, delta),
             max_users, delta)

\* seeds: the seed users in the order the set is iterated.
approx_class_infection(seeds, min_users, max_users) ==
    LET n == Len(seeds)
        infections == approx_class_loop(seeds, 1, <<{}>>, max_users,
                                        trim_delta(min_users, max_users, n))
    IN infections[Len(infections)]

\* seeds = all_parents() | all_singletons(); seeds -= users
class_seeds(component_users) == (all_parents \cup all_singletons) \ component_users

\* Variant of limited_infection that updates the selected users before it
\* compares their number with min_users.
limited_infection_eager(comps, ord, min_users, max_users) ==
    IF min_users = 0
    THEN [result |-> "error", updated |-> {}, users |-> {},
          class_pass |-> FALSE, class_users |-> {}]
    ELSE LET component_users == approx_component_infection(comps, min_users, max_users)
             short == Cardinality(component_users) < min_users
             found == IF short
                      THEN approx_class_infection(
                               Iterate((all_parents \cup all_singletons) \ component_users, ord),
                               min_users - Cardinality(component_users),
                               max_users - Cardinality(component_users))
                      ELSE {}
         IN [result |-> IF Cardinality(component_users \cup found) >= min_users
                        THEN "True" ELSE "False",
             updated |-> component_users \cup found, users |-> component_users,
             class_pass |-> short, class_users |-> found]

\* Variant of limited_infection that runs the class pass whatever the
\* component pass selected.
limited_infection_both(comps, ord, min_users, max_users) ==
    IF min_users = 0
    THEN [result |-> "error", updated |-> {}, users |-> {},
          class_pass |-> FALSE, class_users |-> {}]
    ELSE LET component_users == approx_component_infection(comps, min_users, max_users)
             found == approx_class_infection(
                          Iterate(class_seeds(component_users) \cap Range(ord), ord),
                          min_users - Cardinality(component_users),
                          max_users - Cardinality(component_users))
             all_users == component_users \cup found
         IN IF Cardinality(all_users) >= min_users
            THEN [result |-> "True", updated |-> all_users, users |-> component_users,
                  class_pass |-> TRUE, class_users |-> found]
            ELSE [result |-> "False", updated |-> {}, users |-> component_users,
                  class_pass |-> TRUE, class_users |-> found]

\* limited_infection after all_connected_components returned comps; ord is
\* the order in which the seed set of the class pass is iterated.  Dividing
\* by min_users = 0 raises ZeroDivisionError.
limited_infection(comps, ord, min_users, max_users) ==
    IF min_users = 0
    THEN [result |-> "error", updated |-> {}, users |-> {},
          class_pass |-> FALSE, class_users |-> {}]
    ELSE LET component_users == approx_component_infection(comps, min_users, max_users)
             short == Cardinality(component_users) < min_users
             seeds == class_seeds(component_users)
             min_class_users == min_users - Cardinality(component_users)
             max_class_users == max_users - Cardinality(component_users)
             found == IF short
                      THEN approx_class_infection(Iterate(seeds, ord),
                                                  min_class_users, max_class_users)
                      ELSE {}
             all_users == component_users \cup found
         IN IF Cardinality(all_users) >= min_users
            THEN [result |-> "True", updated |-> all_users, users |-> component_users,
                  class_pass |-> short, class_users |-> found]
            ELSE [result |-> "False", updated |-> {}, users |-> component_users,
                  class_pass |-> short, class_users |-> found]

\* ------------------------------------------------------------ exact solver
\* The value returned is False (found = FALSE) or a list of indices (sol).
NoSolution == [found |-> FALSE, sol |-> <<>>]

RECURSIVE exact_subset_sum(_, _, _, _, _)
RECURSIVE exact_subset_sum_while(_, _, _, _, _, _)
exact_subset_sum(sizes, target, i, n, subtotal) ==
    IF subtotal = target
    THEN [found |-> TRUE, sol |-> <<i>>]
    ELSE IF subtotal > target
         THEN NoSolution
         ELSE exact_subset_sum_while(sizes, target, i, n, subtotal, i + 1)

exact_subset_sum_while(sizes, target, i, n, subtotal, j) ==
    IF j < n
    THEN LET ret == exact_subset_sum(sizes, target, j, n, subtotal + PyIndex(sizes, j)) IN
         IF ret.found
         THEN [found |-> TRUE, sol |-> IF i > -1 THEN Append(ret.sol, i) ELSE ret.sol]
         ELSE exact_subset_sum_while(sizes, target, i, n, subtotal, j + 1)
    ELSE NoSolution

\* exact_limited_infection after all_connected_components returned comps.
\* components[i] raises IndexError for an index outside the list; the users
\* of the components before it have been updated by then.
exact_limited_infection(comps, num_users) ==
    LET sizes == [i \in 1..Len(comps) |-> Len(comps[i])]
        solution == exact_subset_sum(sizes, num_users, -1, Len(sizes), 0)
        bad == {k \in 1..Len(solution.sol) : ~InRange(comps, solution.sol[k])}
        done == {k \in 1..Len(solution.sol) : \A b \in bad : k < b}
        infected == UNION {Range(PyIndex(comps, solution.sol[k])) : k \in done}
    IN IF solution.found
       THEN [result |-> IF bad = {} THEN "True" ELSE "error", updated |-> infected]
       ELSE [result |-> "False", updated |-> {}]

\* ---------------------------------------------------------- total infection
\* Variant of total_infection that updates the initial user only.
total_infection_anchor_only(initial_user_id, vis, ord) ==
    IF initial_user_id \notin nodes
    THEN [result |-> "error", updated |-> {}, visited |-> vis]
    ELSE [result |-> "None", updated |-> {initial_user_id},
          visited |-> connected_component(initial_user_id, vis, ord).visited]

\* Variant of total_infection that swallows the exception for an unknown id.
total_infection_silent(initial_user_id, vis, ord) ==
    IF initial_user_id \notin nodes
    THEN [result |-> "None", updated |-> {}, visited |-> vis]
    ELSE [result |-> "None",
          updated |-> Range(connected_component(initial_user_id, vis, ord).connected),
          visited |-> connected_component(initial_user_id, vis, ord).visited]

\* connected_component raises when the id is not stored; nothing has been
\* touched by then.
total_infection(initial_user_id, vis, ord) ==
    IF initial_user_id \notin nodes
    THEN [result |-> "error", updated |-> {}, visited |-> vis]
    ELSE LET infected == connected_component(initial_user_id, vis, ord)
         IN [result |-> "None", updated |-> Range(infected.connected),
             visited |-> infected.visited]

\* for user in ...: user.update_feature(feature)
infect(data, who, feature) ==
    [u \in DOMAIN data |-> IF u \in who THEN update_feature(data[u], feature) ELSE data[u]]

\* ------------------------------------------------------------------ state
Call(name, feature, a, b) == [name |-> name, feature |-> feature, a |-> a, b |-> b]

NoSets == [n \in Ids |-> {}]

\* Outside a call of trim_infections.
NoTrim ==
    /\ trim_call = [infections |-> <<>>, delta |-> trim_delta(1, 1, 1)]
    /\ trim_result = <<>>

\* What the graph operations leave alone.
scratch == <<prev, earlier, trim_call, trim_result>>

Init ==
    /\ nodes = {}
    /\ incoming = NoSets
    /\ outgoing = NoSets
    /\ visited = [n \in Ids |-> FALSE]
    /\ features = NoSets
    /\ phase = "users"
    /\ op = Call("load", <<>>, 0, 0)
    /\ result = "None"
    /\ updated = {}
    /\ before = NoSets
    /\ connected = <<>>
    /\ components = <<>>
    /\ users = {}
    /\ class_pass = FALSE
    /\ class_users = {}
    /\ prev = Call("load", <<>>, 0, 0)
    /\ earlier = NoSets
    /\ NoTrim

NumEdges == Cardinality({e \in nodes \X nodes : e[2] \in outgoing[e[1]]})

history == <<op, result, updated, before, connected, components, users,
             class_pass, class_users>>

\* ----------------------------------------------------------------- loader
\* json_file_to_coaching_graph: for user_id in graph_data["users"]
LoadUser ==
    /\ phase = "users"
    /\ Cardinality(nodes) < MaxNodes
    /\ nodes' = add_node(nodes, Cardinality(nodes) + 1)
    /\ UNCHANGED <<incoming, outgoing, visited, features, phase, history, scratch>>

\* json_file_to_coaching_graph: coaching_graph.add_edge(coach, student)
LoadCoach(coach_id, student_id) ==
    /\ phase \in {"users", "coaches"}
    /\ coach_id \in nodes /\ student_id \in nodes
    /\ student_id \notin outgoing[coach_id]
    /\ NumEdges < MaxEdges
    /\ incoming' = add_edge(coach_id, student_id).incoming
    /\ outgoing' = add_edge(coach_id, student_id).outgoing
    /\ phase' = "coaches"
    /\ UNCHANGED <<nodes, visited, features, history, scratch>>

\* json_file_to_coaching_graph: user.add_feature(feature)
LoadFeature(user_id, feature) ==
    /\ phase \in {"users", "coaches", "features"}
    /\ user_id \in nodes
    /\ feature \notin features[user_id]
    /\ features' = [features EXCEPT ![user_id] = add_feature(@, feature)]
    /\ phase' = "features"
    /\ UNCHANGED <<nodes, incoming, outgoing, visited, history, scratch>>

\* json_file_to_coaching_graph: return coaching_graph
LoadDone ==
    /\ phase \in {"users", "coaches", "features"}
    /\ phase' = "ready"
    /\ before' = features
    /\ UNCHANGED <<nodes, incoming, outgoing, visited, features, op, result, updated,
                   connected, components, users, class_pass, class_users, scratch>>

\* ------------------------------------------------------------- operations
\* main loads the graph and calls one operation on it.
Ready == phase = "ready"

\* What every call records, and what it leaves alone.
Called(name, feature, a, b, res, who) ==
    /\ op' = Call(name, feature, a, b)
    /\ result' = res
    /\ updated' = who
    /\ before' = features
    /\ phase' = "done"
    /\ UNCHANGED <<nodes, incoming, outgoing, scratch>>

\* Graph.connected_component(start_id)
ConnectedComponent(start_id) ==
    /\ Ready
    /\ IF start_id \notin nodes
       THEN /\ Called("connected_component", <<>>, start_id, 0, "error", {})
            /\ connected' = <<>>
            /\ UNCHANGED visited
       ELSE \E r \in {connected_component(start_id, visited, ord) : ord \in Perms(nodes)} :
            /\ Called("connected_component", <<>>, start_id, 0, "None", {})
            /\ connected' = r.connected
            /\ visited' = r.visited
    /\ components' = <<>>
    /\ users' = {} /\ class_pass' = FALSE /\ class_users' = {}
    /\ UNCHANGED features

\* Graph.all_connected_components()
AllConnectedComponents ==
    /\ Ready
    /\ \E r \in {all_connected_components(visited, ord) : ord \in Perms(nodes)} :
       /\ Called("all_connected_components", <<>>, 0, 0, "None", {})
       /\ components' = r.components
       /\ visited' = r.visited
    /\ connected' = <<>>
    /\ users' = {} /\ class_pass' = FALSE /\ class_users' = {}
    /\ UNCHANGED features

\* total_infection(coaching_graph, feature, initial_user_id)
TotalInfection(feature, initial_user_id) ==
    /\ Ready
    /\ \E r \in {total_infection(initial_user_id, visited, ord) : ord \in Perms(nodes)} :
       /\ Called("total_infection", feature, initial_user_id, 0, r.result, r.updated)
       /\ features' = infect(features, r.updated, feature)
       /\ visited' = r.visited
    /\ connected' = <<>> /\ components' = <<>>
    /\ users' = {} /\ class_pass' = FALSE /\ class_users' = {}

\* The lists all_connected_components can return, over the orders ids.pop()
\* and the neighbour sets can follow.  The solvers read a component through
\* set(seed) and len(seed) only, so one list is kept for each sequence of
\* member sets and lengths.
Members(cc) == [i \in 1..Len(cc.components) |->
                   <<Range(cc.components[i]), Len(cc.components[i])>>]

ComponentLists ==
    LET all == {all_connected_components(visited, ord) : ord \in Perms(nodes)}
    IN {CHOOSE cc \in all : Members(cc) = m /\ cc.visited = v :
           <<m, v>> \in {<<Members(cc), cc.visited>> : cc \in all}}

\* The orders in which limited_infection can iterate the seed set of the
\* class pass: none when the pass is not reached.
SeedOrders(comps, min_users, max_users) ==
    IF min_users = 0
    THEN {<<>>}
    ELSE LET component_users == approx_component_infection(comps, min_users, max_users)
         IN IF Cardinality(component_users) < min_users
            THEN Perms(class_seeds(component_users))
            ELSE {<<>>}

\* exact_limited_infection(coaching_graph, feature, num_users)
ExactLimitedInfection(num_users, cc) ==
    /\ Ready
    /\ \E r \in {exact_limited_infection(cc.components, num_users)} :
       \E feature \in Tokens :
          /\ Called("exact_limited_infection", feature, num_users, 0, r.result, r.updated)
          /\ features' = infect(features, r.updated, feature)
    /\ visited' = cc.visited
    /\ connected' = <<>> /\ components' = <<>>
    /\ users' = {} /\ class_pass' = FALSE /\ class_users' = {}

\* limited_infection(coaching_graph, feature, min_users, max_users)
LimitedInfection(min_users, max_users, cc) ==
    /\ Ready
    /\ \E r \in {limited_infection(cc.components, ord, min_users, max_users) :
                    ord \in SeedOrders(cc.components, min_users, max_users)} :
       /\ \E feature \in Tokens :
             /\ Called("limited_infection", feature, min_users, max_users, r.result, r.updated)
             /\ features' = infect(features, r.updated, feature)
       /\ users' = r.users
       /\ class_pass' = r.class_pass
       /\ class_users' = r.class_users
    /\ visited' = cc.visited
    /\ connected' = <<>> /\ components' = <<>>

Next ==
    \/ LoadUser
    \/ \E coach_id, student_id \in Ids : LoadCoach(coach_id, student_id)
    \/ \E user_id \in 1..MaxLoaded : LoadFeature(user_id, Feature)
    \/ LoadDone
    \/ \E start_id \in Ids : ConnectedComponent(start_id)
    \/ AllConnectedComponents
    \/ \E feature \in Tokens, initial_user_id \in Ids : TotalInfection(feature, initial_user_id)
    \/ Ready /\ \E cc \in ComponentLists, num_users \in Args :
                   ExactLimitedInfection(num_users, cc)
    \/ Ready /\ \E cc \in ComponentLists, min_users \in Args :
                   \E max_users \in min_users..MaxArg :
                      LimitedInfection(min_users, max_users, cc)

Spec == Init /\ [][Next]_vars

\* ------------------------------------------------------------ large graphs
\* The graphs loaded from a file whose components are stars: the first id of
\* each block of ids coaches the rest of the block.
BigShapes == {<<a, b, c, 1>> : a \in (BigA - 1)..BigA, b \in (BigB - 1)..BigB,
                               c \in (BigC - 1)..BigC}

RECURSIVE Total(_)
Total(sizes) == IF sizes = <<>> THEN 0 ELSE Head(sizes) + Total(Tail(sizes))

Block(sizes, k) == (Total(SubSeq(sizes, 1, k - 1)) + 1)..Total(SubSeq(sizes, 1, k))

Coach(sizes, k) == Total(SubSeq(sizes, 1, k - 1)) + 1

StarOutgoing(sizes) ==
    [n \in 1..Total(sizes) |->
        UNION {IF n = Coach(sizes, k) THEN Block(sizes, k) \ {n} ELSE {} :
                  k \in 1..Len(sizes)}]

StarIncoming(sizes) ==
    [n \in 1..Total(sizes) |->
        UNION {IF n \in Block(sizes, k) \ {Coach(sizes, k)} THEN {Coach(sizes, k)} ELSE {} :
                  k \in 1..Len(sizes)}]

InitBig ==
    \E sizes \in BigShapes :
        /\ nodes = 1..Total(sizes)
        /\ incoming = StarIncoming(sizes)
        /\ outgoing = StarOutgoing(sizes)
        /\ visited = [n \in 1..Total(sizes) |-> FALSE]
        /\ features = [n \in 1..Total(sizes) |-> {}]
        /\ phase = "ready"
        /\ op = Call("load", <<>>, 0, 0)
        /\ result = "None"
        /\ updated = {}
        /\ before = [n \in 1..Total(sizes) |-> {}]
        /\ connected = <<>>
        /\ components = <<>>
        /\ users = {}
        /\ class_pass = FALSE
        /\ class_users = {}
        /\ prev = Call("load", <<>>, 0, 0)
        /\ earlier = [n \in 1..Total(sizes) |-> {}]
        /\ NoTrim

\* The ids in ascending and in descending order.
BigOrders == {[i \in 1..Cardinality(nodes) |-> i],
              [i \in 1..Cardinality(nodes) |-> Cardinality(nodes) + 1 - i]}

NextBig ==
    Ready /\ \E cc \in {all_connected_components(visited, ord) : ord \in BigOrders},
                min_users \in 1..BigMin, max_users \in (BigMax - 10)..BigMax :
                   LimitedInfection(min_users, max_users, cc)

SpecBig == InitBig /\ [][NextBig]_vars

\* -------------------------------------------------------- users on their own
\* Strings of at most k characters over the alphabet "a", "!".
RECURSIVE Strings(_)
Strings(k) ==
    IF k = 0
    THEN {<<>>}
    ELSE Strings(k - 1) \cup {Append(w, c) : w \in Strings(k - 1), c \in {"a", "!"}}

\* The tokens passed to update_feature: a feature name, or "!" and a name.
UserTokens == Strings(2)

\* A graph of one user, loaded with some features.
InitUser ==
    \E data \in {d \in SUBSET UserTokens : Cardinality(d) <= MaxData} :
        /\ nodes = {1}
        /\ incoming = NoSets
        /\ outgoing = NoSets
        /\ visited = [n \in Ids |-> FALSE]
        /\ features = [n \in Ids |-> IF n = 1 THEN data ELSE {}]
        /\ phase = "ready"
        /\ op = Call("load", <<>>, 0, 0)
        /\ result = "None"
        /\ updated = {}
        /\ before = features
        /\ connected = <<>>
        /\ components = <<>>
        /\ users = {}
        /\ class_pass = FALSE
        /\ class_users = {}
        /\ prev = Call("load", <<>>, 0, 0)
        /\ earlier = features
        /\ NoTrim

\* user.update_feature(feature) on the stored user user_id
UpdateFeature(user_id, feature) ==
    /\ Ready
    /\ user_id \in nodes
    /\ features' = [features EXCEPT ![user_id] = update_feature(@, feature)]
    /\ op' = Call("update_feature", feature, user_id, 0)
    /\ result' = "None"
    /\ updated' = {user_id}
    /\ before' = features
    /\ prev' = op
    /\ earlier' = before
    /\ UNCHANGED <<nodes, incoming, outgoing, visited, phase, connected, components,
                   users, class_pass, class_users, trim_call, trim_result>>

NextUser == \E user_id \in Ids, feature \in UserTokens : UpdateFeature(user_id, feature)

SpecUser == InitUser /\ [][NextUser]_vars

\* ------------------------------------------------- the calls of trimming
\* approx_component_infection one seed at a time: each step is one turn of
\* its loop, which ends with the call of trim_infections.  The seeds are
\* the components of a graph of stars, components holds the seeds not yet
\* processed, trim_result the list infections.
RECURSIVE Shapes(_)
Shapes(k) ==
    IF k = 0
    THEN {<<>>}
    ELSE Shapes(k - 1) \cup {Append(sizes, z) : sizes \in Shapes(k - 1), z \in 1..TrimSize}

Seeds(sizes) ==
    [k \in 1..Len(sizes) |-> [i \in 1..sizes[k] |-> Coach(sizes, k) + i - 1]]

InitTrim ==
    \E sizes \in Shapes(TrimLen) \ {<<>>}, max_users \in 1..TrimMax :
    \E min_users \in 1..max_users :
        /\ nodes = 1..Total(sizes)
        /\ incoming = StarIncoming(sizes)
        /\ outgoing = StarOutgoing(sizes)
        /\ visited = [n \in 1..Total(sizes) |-> FALSE]
        /\ features = [n \in 1..Total(sizes) |-> {}]
        /\ phase = "ready"
        /\ op = Call("approx_component_infection", <<>>, min_users, max_users)
        /\ result = "None"
        /\ updated = {}
        /\ before = [n \in 1..Total(sizes) |-> {}]
        /\ connected = <<>>
        /\ components = Seeds(sizes)
        /\ users = {}
        /\ class_pass = FALSE
        /\ class_users = {}
        /\ prev = Call("load", <<>>, 0, 0)
        /\ earlier = [n \in 1..Total(sizes) |-> {}]
        /\ trim_call = [infections |-> <<>>,
                        delta |-> trim_delta(min_users, max_users, Len(sizes))]
        /\ trim_result = <<{}>>

\* for seed in seeds: ... infections = trim_infections(infections, epsilon / (2.0 * n))
TrimInfections ==
    /\ Ready
    /\ components # <<>>
    /\ \E sorted \in {SortByLen(trim_result \o
                           within([i \in 1..Len(trim_result) |->
                                      trim_result[i] \cup Range(Head(components))],
                                  trim_call.delta.max_users), 0)} :
          /\ trim_call' = [trim_call EXCEPT !.infections = sorted]
          /\ trim_result' = trim_infections(sorted, trim_call.delta)
    /\ components' = Tail(components)
    /\ op' = Call("trim_infections", <<>>, op.a, op.b)
    /\ UNCHANGED <<nodes, incoming, outgoing, visited, features, phase, result, updated,
                   before, connected, users, class_pass, class_users, prev, earlier>>

NextTrim == TrimInfections

SpecTrim == InitTrim /\ [][NextTrim]_vars

\* ------------------------------------------------- several calls, one graph
\* A loaded graph on which a caller makes one call after another, as the
\* tests do on the graph they build.
InitReuse ==
    /\ \E k \in 1..MaxReuse : nodes = 1..k
    /\ \E edges \in SUBSET (nodes \X nodes) :
          /\ Cardinality(edges) <= ReuseEdges
          /\ outgoing = [n \in Ids |-> {m \in nodes : <<n, m>> \in edges}]
          /\ incoming = [n \in Ids |-> {m \in nodes : <<m, n>> \in edges}]
    /\ visited = [n \in Ids |-> FALSE]
    /\ features = NoSets
    /\ phase = "ready"
    /\ op = Call("load", <<>>, 0, 0)
    /\ result = "None"
    /\ updated = {}
    /\ before = NoSets
    /\ connected = <<>>
    /\ components = <<>>
    /\ users = {}
    /\ class_pass = FALSE
    /\ class_users = {}
    /\ prev = Call("load", <<>>, 0, 0)
    /\ earlier = NoSets
    /\ NoTrim

\* The call has returned and the caller goes on to its next call: the graph,
\* the flags and the feature sets stay as the call left them.
Again ==
    /\ phase = "done"
    /\ phase' = "ready"
    /\ op' = Call("load", <<>>, 0, 0)
    /\ result' = "None"
    /\ updated' = {}
    /\ before' = features
    /\ connected' = <<>>
    /\ components' = <<>>
    /\ users' = {} /\ class_pass' = FALSE /\ class_users' = {}
    /\ UNCHANGED <<nodes, incoming, outgoing, visited, features, scratch>>

NextReuse ==
    \/ \E start_id \in Ids : ConnectedComponent(start_id)
    \/ AllConnectedComponents
    \/ \E feature \in Tokens, initial_user_id \in Ids : TotalInfection(feature, initial_user_id)
    \/ Ready /\ \E cc \in ComponentLists, num_users \in Args :
                   ExactLimitedInfection(num_users, cc)
    \/ Ready /\ \E cc \in ComponentLists, min_users \in Args :
                   \E max_users \in min_users..MaxArg :
                      LimitedInfection(min_users, max_users, cc)
    \/ Again

SpecReuse == InitReuse /\ [][NextReuse]_vars

\* ------------------------------------------------------- input that fails
\* json_file_to_coaching_graph: find_node(coach_id) or find_node(student_id)
\* raises KeyError on an id that is not in the graph.  The entries looked at
\* before this one have been added.
LoadCoachUndeclared(coach_id, student_id) ==
    /\ phase \in {"users", "coaches"}
    /\ coach_id \notin nodes \/ student_id \notin nodes
    /\ phase' = "failed"
    /\ op' = Call("coaches", <<>>, coach_id, student_id)
    /\ result' = "error"
    /\ UNCHANGED <<nodes, incoming, outgoing, visited, features, updated, before,
                   connected, components, users, class_pass, class_users, scratch>>

\* json_file_to_coaching_graph: find_node(user_id) raises KeyError in the
\* loop over the features.
LoadFeatureUndeclared(user_id) ==
    /\ phase \in {"users", "coaches", "features"}
    /\ user_id \notin nodes
    /\ phase' = "failed"
    /\ op' = Call("features", <<>>, user_id, 0)
    /\ result' = "error"
    /\ UNCHANGED <<nodes, incoming, outgoing, visited, features, updated, before,
                   connected, components, users, class_pass, class_users, scratch>>

NextLoad ==
    \/ LoadUser
    \/ \E coach_id, student_id \in Ids : LoadCoach(coach_id, student_id)
    \/ \E user_id \in 1..MaxLoaded : LoadFeature(user_id, Feature)
    \/ LoadDone
    \/ \E coach_id, student_id \in Ids : LoadCoachUndeclared(coach_id, student_id)
    \/ \E user_id \in Ids : LoadFeatureUndeclared(user_id)

SpecLoad == Init /\ [][NextLoad]_vars

\* ------------------------------------------------- graphs built by calls
\* The node objects a caller can hold, and the graph it builds with add_node
\* and add_edge before it traverses it.
Objects == {n \in -MaxIds..MaxIds : n # 0}

InitObjects ==
    /\ nodes = {}
    /\ incoming = [n \in Objects |-> {}]
    /\ outgoing = [n \in Objects |-> {}]
    /\ visited = [n \in Objects |-> FALSE]
    /\ features = NoSets
    /\ phase = "build"
    /\ op = Call("Graph", <<>>, 0, 0)
    /\ result = "None"
    /\ updated = {}
    /\ before = NoSets
    /\ connected = <<>>
    /\ components = <<>>
    /\ users = {}
    /\ class_pass = FALSE
    /\ class_users = {}
    /\ prev = Call("load", <<>>, 0, 0)
    /\ earlier = NoSets
    /\ NoTrim

\* Graph.add_node(node)
AddNode(node) ==
    /\ phase = "build"
    /\ nodes' = add_node(nodes, node)
    /\ op' = Call("add_node", <<>>, node, 0)
    /\ UNCHANGED <<incoming, outgoing, visited, features, phase, result, updated, before,
                   connected, components, users, class_pass, class_users, scratch>>

\* Graph.add_edge(node1, node2)
AddEdge(node1, node2) ==
    /\ phase = "build"
    /\ Cardinality({e \in Objects \X Objects : e[2] \in outgoing[e[1]]}) < ObjectEdges
    /\ nodes' = add_node(add_node(nodes, node1), node2)
    /\ incoming' = add_edge(node1, node2).incoming
    /\ outgoing' = add_edge(node1, node2).outgoing
    /\ op' = Call("add_edge", <<>>, node1, node2)
    /\ UNCHANGED <<visited, features, phase, result, updated, before,
                   connected, components, users, class_pass, class_users, scratch>>

\* The orders in which the ids and the node objects can be iterated.
ObjectOrders == Perms(Objects)

\* Graph.connected_component(start_id) on the graph built
ComponentOfBuilt(start_id) ==
    /\ phase = "build"
    /\ start_id \in {id(n) : n \in nodes}
    /\ \E r \in {connected_component(start_id, visited, ord) : ord \in ObjectOrders} :
       /\ Called("connected_component", <<>>, start_id, 0, "None", {})
       /\ connected' = r.connected
       /\ visited' = r.visited
    /\ UNCHANGED <<features, components, users, class_pass, class_users>>

\* Graph.all_connected_components() on the graph built
ComponentsOfBuilt ==
    /\ phase = "build"
    /\ \E r \in {all_connected_components(visited, ord) : ord \in ObjectOrders} :
       /\ Called("all_connected_components", <<>>, 0, 0, "None", {})
       /\ components' = r.components
       /\ visited' = r.visited
    /\ UNCHANGED <<features, connected, users, class_pass, class_users>>

NextObjects ==
    \/ \E node \in Objects : AddNode(node)
    \/ \E node1, node2 \in Objects : AddEdge(node1, node2)
    \/ \E start_id \in 1..MaxIds : ComponentOfBuilt(start_id)
    \/ ComponentsOfBuilt

SpecObjects == InitObjects /\ [][NextObjects]_vars

\* ------------------------------------------------------------- properties
\* Weak connectivity, from the coaching edges alone.
Linked(u, v) == v \in outgoing[u] \/ u \in outgoing[v]

RECURSIVE Reach(_)
Reach(S) ==
    LET T == S \cup {v \in nodes : \E u \in S : Linked(u, v)}
    IN IF T = S THEN S ELSE Reach(T)

WeakComponent(a) == Reach({a})

WeakComponents == {WeakComponent(a) : a \in nodes}

\* A class: a coach together with the users it directly coaches.
Classes == {{c} \cup outgoing[c] : c \in {n \in nodes : outgoing[n] # {}}}

IsExact == op.name = "exact_limited_infection"
IsLimited == op.name = "limited_infection"
IsTotal == op.name = "total_infection"

\* C1: exact_limited_infection returns True if and only if some
\* sub-collection of the connected components has sizes summing to count.
C1_ExactIffSubsetSum ==
    IsExact =>
        (result = "True" <=>
            \E sub \in SUBSET WeakComponents : Cardinality(UNION sub) = op.a)

\* C2: when exact_limited_infection returns True, the users updated are the
\* members of whole connected components whose sizes sum to count: exactly
\* count users are updated and every other feature set is unchanged.
C2_ExactUpdatesWholeComponents ==
    (IsExact /\ result = "True") =>
        /\ \E sub \in SUBSET WeakComponents : updated = UNION sub
        /\ Cardinality(updated) = op.a
        /\ \A u \in nodes \ updated : features[u] = before[u]

\* C3: when limited_infection returns True, the number of users updated
\* lies between min and max.
C3_LimitedWithinRange ==
    (IsLimited /\ result = "True") =>
        (op.a <= Cardinality(updated) /\ Cardinality(updated) <= op.b)

C3_Witness ==
    /\ IsLimited /\ result = "True"
    /\ class_pass /\ users # {} /\ class_users # {}
    /\ updated = users \cup class_users

\* C4: if some union of whole components and classes has a size between min
\* and max, limited_infection returns True.
C4_LimitedFindsExisting ==
    (/\ IsLimited /\ 1 <= op.a /\ op.a <= op.b
     /\ \E sub \in SUBSET (WeakComponents \cup Classes) :
           op.a <= Cardinality(UNION sub) /\ Cardinality(UNION sub) <= op.b)
        => result = "True"

\* C5: a call of exact_limited_infection or limited_infection that returns
\* False leaves every feature set as it was.
C5_FailureMutatesNothing ==
    ((IsExact \/ IsLimited) /\ result = "False") =>
        (features = before /\ updated = {})

C5_Witness ==
    /\ IsLimited /\ result = "False" /\ class_pass
    /\ users # {} /\ Cardinality(nodes) >= 3
    /\ \E u \in nodes : before[u] # {}

\* The largest total size of a union of whole connected components that
\* does not exceed max_users.
OptComponentSize(max_users) ==
    LET sizes == {Cardinality(UNION sub) : sub \in SUBSET WeakComponents}
        fits == {z \in sizes : z <= max_users}
    IN CHOOSE z \in fits : \A y \in fits : y <= z

\* C6: with epsilon = max_users/min_users - 1, the candidate returned by
\* approx_component_infection has a size s with s * (1 + epsilon) at least
\* the largest total size of whole components within max_users.
C6_ApproxWithinFactor ==
    (IsLimited /\ 1 <= op.a /\ op.a <= op.b) =>
        Cardinality(users) * op.b >= OptComponentSize(op.b) * op.a

\* C7: all_connected_components returns a partition of the node set.
C7_ComponentsPartition ==
    op.name = "all_connected_components" =>
        /\ UNION {Range(components[i]) : i \in 1..Len(components)} = nodes
        /\ \A n \in nodes :
              Cardinality({i \in 1..Len(components) : n \in Range(components[i])}) = 1

C7_Witness ==
    /\ op.name = "all_connected_components"
    /\ Len(components) >= 2
    /\ \E i \in 1..Len(components) : Len(components[i]) >= 3

\* C8: connected_component(a) returns exactly the nodes reachable from a
\* when edge direction is ignored.
C8_ComponentIsWeakReach ==
    (op.name = "connected_component" /\ op.a \in nodes) =>
        (result = "None" /\ Range(connected) = WeakComponent(op.a))

C8_Witness ==
    /\ op.name = "connected_component" /\ op.a \in nodes
    /\ Len(connected) >= 3 /\ Range(connected) # nodes
    /\ incoming[op.a] # {} /\ outgoing[op.a] # {}

\* C9: total_infection updates the feature of every user in the weak
\* component of the anchor and of no other user.
C9_TotalInfectsComponent ==
    (IsTotal /\ op.a \in nodes) =>
        /\ result = "None"
        /\ updated = WeakComponent(op.a)
        /\ \A u \in DOMAIN features :
              features[u] = IF u \in WeakComponent(op.a)
                            THEN update_feature(before[u], op.feature)
                            ELSE before[u]

C9_Witness ==
    /\ IsTotal /\ op.a \in nodes
    /\ Cardinality(updated) >= 2 /\ updated # nodes
    /\ features # before

\* C10: total_infection with an anchor id that is not in the graph fails
\* with an error and changes no feature set.
C10_TotalUnknownAnchor ==
    (IsTotal /\ op.a \notin nodes) =>
        (result = "error" /\ updated = {} /\ features = before)

C10_Witness ==
    /\ IsTotal /\ op.a \notin nodes /\ result = "error"
    /\ \E u \in nodes : features[u] # {}

IsUpdate == op.name = "update_feature"

\* C11: for a token x that does not start with "!", update_feature(x)
\* followed by update_feature("!" + x) on the same user leaves the feature
\* set it had before the two calls without x, and update_feature("!" + x)
\* on a user that lacks x leaves its feature set as it was.
C11_UpdateThenDiscard ==
    (IsUpdate /\ startswith_bang(op.feature) /\ ~startswith_bang(Tail(op.feature))) =>
        LET x == Tail(op.feature)
            u == op.a
        IN /\ (prev.name = "update_feature" /\ prev.a = u /\ prev.feature = x) =>
                 (x \notin features[u] /\ features[u] = earlier[u] \ {x})
           /\ x \notin before[u] => features[u] = before[u]

C11_Witness ==
    /\ IsUpdate /\ prev.name = "update_feature" /\ prev.a = op.a
    /\ ~startswith_bang(prev.feature) /\ Len(prev.feature) >= 1
    /\ op.feature = <<"!">> \o prev.feature
    /\ prev.feature \in earlier[op.a]
    /\ features[op.a] # {}

NoRepeat(list) == \A i, j \in 1..Len(list) : list[i] = list[j] => i = j

\* C13: every node appears at most once in the list connected_component
\* returns, and in each list all_connected_components returns, however
\* often the search enqueued it (cycles, self-loops, several coaches).
C13_NoRepeatedNode ==
    /\ op.name = "connected_component" => NoRepeat(connected)
    /\ op.name = "all_connected_components" =>
          \A i \in 1..Len(components) : NoRepeat(components[i])

C13_Witness ==
    /\ op.name = "connected_component" /\ Len(connected) >= 3
    /\ \E n \in Range(connected) : n \in outgoing[n]
    /\ \E n \in Range(connected) : Cardinality(incoming[n] \ {n}) >= 2

\* The strictly increasing lists of k positions in 1..n.
RECURSIVE Positions(_, _)
Positions(k, n) ==
    IF k = 0
    THEN {<<>>}
    ELSE {Append(p, m) : p \in Positions(k - 1, n), m \in 1..n} \cap
         {p \in [1..k -> 1..n] : \A i \in 1..(k - 1) : p[i] < p[i + 1]}

Fresh == [n \in Ids |-> FALSE]

C15_FlagsLeftBehind ==
    (op.name = "connected_component" /\ op.a \in nodes) =>
        /\ \E ord \in Perms(nodes) :
              connected = connected_component(op.a, Fresh, ord).connected
        /\ \A ord \in Perms(nodes) :
              Range(connected) = Range(connected_component(op.a, Fresh, ord).connected)

\* An earlier infection has traversed, and changed, another component.
C15_Witness ==
    /\ op.name = "connected_component" /\ op.a \in nodes
    /\ Len(connected) >= 2
    /\ \E u \in nodes \ Range(connected) : features[u] # {}

\* C16: when the loader fails on a coaches entry that names an id not
\* declared in users, no node has an incoming or an outgoing neighbour.
C16_RejectedBeforeMutation ==
    (phase = "failed" /\ op.name = "coaches") =>
        \A n \in nodes : incoming[n] = {} /\ outgoing[n] = {}

\* C17: exact_limited_infection with count >= 0 and limited_infection with
\* 0 <= min <= max return True or False on every graph; neither raises.
C17_SolversReturn ==
    (IsExact \/ IsLimited) => result \in {"True", "False"}

\* C18: after any sequence of add_node and add_edge calls every neighbour of
\* a stored node is a stored node, and connected_component and
\* all_connected_components return stored nodes only.
C18_NeighboursAreStored ==
    /\ \A n \in nodes : neighbors(n) \subseteq nodes
    /\ Range(connected) \subseteq nodes
    /\ \A i \in 1..Len(components) : Range(components[i]) \subseteq nodes

====
